---- MODULE Spec2Model ----
(***************************************************************************)
(* Model of src/app.py (Stock Insight Pro): the indicator computation, the *)
(* risk metrics, the Monte Carlo simulation, the comparison normalisation  *)
(* and the module-level script flow that calls them.                       *)
(*                                                                         *)
(* Numbers.  The script computes in float64.  The model computes exactly:  *)
(* a finite value is q + c*sqrt(v) with q, c, v rational (v >= 0), which   *)
(* is closed under every operation the script applies to the inputs the    *)
(* model draws; NaN and +/-infinity follow the IEEE-754 rules numpy and    *)
(* pandas implement (x/0 = +/-inf for x # 0, 0/0 = NaN, NaN is absorbing). *)
(* The sign of zero is not modelled.  Logarithms are kept in units of ln 2 *)
(* (the model's close prices are powers of two).                           *)
(***************************************************************************)
EXTENDS Integers, Sequences, FiniteSets, TLC

(***************************************************************************)
(* Rationals: <<n, d>> with d > 0 and gcd(n, d) = 1.                       *)
(***************************************************************************)
Abs(n) == IF n < 0 THEN -n ELSE n

RECURSIVE Gcd(_, _)
Gcd(a, b) == IF b = 0 THEN a ELSE Gcd(b, a % b)

Rat(n, d) ==
  LET s == IF d < 0 THEN -1 ELSE 1
      g == Gcd(Abs(n), Abs(d))
  IN  <<(s * n) \div g, (s * d) \div g>>

RInt(n) == <<n, 1>>
RZero == <<0, 1>>
RAdd(a, b) == Rat(a[1] * b[2] + b[1] * a[2], a[2] * b[2])
RNeg(a) == <<-a[1], a[2]>>
RSub(a, b) == RAdd(a, RNeg(b))
RMul(a, b) == Rat(a[1] * b[1], a[2] * b[2])
RDiv(a, b) == Rat(a[1] * b[2], a[2] * b[1])
RLess(a, b) == a[1] * b[2] < b[1] * a[2]
RSign(a) == IF a[1] > 0 THEN 1 ELSE IF a[1] < 0 THEN -1 ELSE 0

\* integer square root of a perfect square, -1 when n is not one
ISqrt(n) ==
  IF \E r \in 0..n : r * r = n THEN CHOOSE r \in 0..n : r * r = n ELSE -1

(***************************************************************************)
(* float64 values.                                                         *)
(***************************************************************************)
NaN == [k |-> "nan"]
Inf(s) == [k |-> "inf", s |-> s]

\* q + c*sqrt(v), normalised: a vanishing surd is <<0,1>>*sqrt(<<0,1>>) and a
\* rational square root is folded into q
Surd(q, c, v) ==
  IF c[1] = 0 \/ v[1] = 0 THEN [k |-> "fin", q |-> q, c |-> RZero, v |-> RZero]
  ELSE IF ISqrt(v[1]) >= 0 /\ ISqrt(v[2]) >= 0
       THEN [k |-> "fin", q |-> RAdd(q, RMul(c, <<ISqrt(v[1]), ISqrt(v[2])>>)),
             c |-> RZero, v |-> RZero]
       ELSE [k |-> "fin", q |-> q, c |-> c, v |-> v]

Fin(r) == Surd(r, RZero, RZero)
F(n) == Fin(RInt(n))
IsNaN(x) == x.k = "nan"
IsInf(x) == x.k = "inf"
IsFin(x) == x.k = "fin"
IsRational(x) == x.k = "fin" /\ x.c[1] = 0

\* sign of a finite value q + c*sqrt(v)
FinSign(x) ==
  LET sq == RSign(x.q)
      sc == RSign(x.c)
      q2 == RMul(x.q, x.q)
      c2 == RMul(RMul(x.c, x.c), x.v)
  IN  IF sc = 0 THEN sq
      ELSE IF sq = 0 THEN sc
      ELSE IF sq = sc THEN sq
      ELSE IF RLess(c2, q2) THEN sq
      ELSE IF RLess(q2, c2) THEN sc
      ELSE 0

FSign(x) == IF IsInf(x) THEN x.s ELSE FinSign(x)
FIsZero(x) == IsFin(x) /\ FinSign(x) = 0

FNeg(x) ==
  CASE IsNaN(x) -> NaN
    [] IsInf(x) -> Inf(-x.s)
    [] OTHER -> Surd(RNeg(x.q), RNeg(x.c), x.v)

\* x + y; two finite values add when their surds share a radicand
FAdd(x, y) ==
  CASE IsNaN(x) \/ IsNaN(y) -> NaN
    [] IsInf(x) /\ IsInf(y) -> IF x.s = y.s THEN x ELSE NaN
    [] IsInf(x) -> x
    [] IsInf(y) -> y
    [] x.c[1] = 0 -> Surd(RAdd(x.q, y.q), y.c, y.v)
    [] y.c[1] = 0 -> Surd(RAdd(x.q, y.q), x.c, x.v)
    [] x.v = y.v -> Surd(RAdd(x.q, y.q), RAdd(x.c, y.c), x.v)

FSub(x, y) == FAdd(x, FNeg(y))

\* x * y; two finite values multiply when one is rational or both are pure surds
FMul(x, y) ==
  CASE IsNaN(x) \/ IsNaN(y) -> NaN
    [] IsInf(x) \/ IsInf(y) ->
         IF FSign(x) = 0 \/ FSign(y) = 0 THEN NaN ELSE Inf(FSign(x) * FSign(y))
    [] x.c[1] = 0 -> Surd(RMul(x.q, y.q), RMul(x.q, y.c), y.v)
    [] y.c[1] = 0 -> Surd(RMul(x.q, y.q), RMul(y.q, x.c), x.v)
    [] x.q[1] = 0 /\ y.q[1] = 0 -> Surd(RZero, RMul(x.c, y.c), RMul(x.v, y.v))

\* x / y with IEEE-754 division by zero; a finite divisor is rational or a pure surd
FDiv(x, y) ==
  CASE IsNaN(x) \/ IsNaN(y) -> NaN
    [] IsInf(x) /\ IsInf(y) -> NaN
    [] IsInf(x) -> Inf(x.s * (IF FSign(y) < 0 THEN -1 ELSE 1))
    [] IsInf(y) -> F(0)
    [] FIsZero(y) -> IF FIsZero(x) THEN NaN ELSE Inf(FSign(x))
    [] y.c[1] = 0 -> Surd(RDiv(x.q, y.q), RDiv(x.c, y.q), x.v)
    [] y.q[1] = 0 /\ x.c[1] = 0 ->
         Surd(RZero, RDiv(x.q, RMul(y.c, y.v)), y.v)
    [] y.q[1] = 0 /\ x.q[1] = 0 ->
         Surd(RZero, RDiv(x.c, y.c), RDiv(x.v, y.v))

\* x > y and x < y as float64 comparisons: False when either side is NaN
FGreater(x, y) == ~IsNaN(x) /\ ~IsNaN(y) /\ FSign(FSub(x, y)) > 0
FLess(x, y) == ~IsNaN(x) /\ ~IsNaN(y) /\ FSign(FSub(x, y)) < 0

\* sqrt of a non-negative rational float
FSqrt(x) ==
  CASE IsNaN(x) -> NaN
    [] IsInf(x) -> IF x.s > 0 THEN x ELSE NaN
    [] FinSign(x) < 0 -> NaN
    [] OTHER -> Surd(RZero, RInt(1), x.q)


(***************************************************************************)
(* pandas Series operations.  A Series is a sequence of float64 values;    *)
(* bar index i of the script is position i + 1 here.                       *)
(***************************************************************************)
RECURSIVE SumSeq(_)
SumSeq(xs) == IF xs = <<>> THEN F(0) ELSE FAdd(Head(xs), SumSeq(Tail(xs)))

DropNa(xs) == SelectSeq(xs, LAMBDA x : ~IsNaN(x))

\* Series.mean(): NaN values are skipped; the mean of nothing is NaN (0/0)
MeanOf(ys) == FDiv(SumSeq(ys), F(Len(ys)))
Mean(xs) == MeanOf(DropNa(xs))

Square(x) == FMul(x, x)
SquaredDeviations(ys, m) == [i \in 1..Len(ys) |-> Square(FSub(ys[i], m))]

\* sample variance, ddof = 1: NaN for fewer than two observations
VarianceOf(ys) ==
  IF Len(ys) < 2 THEN NaN
  ELSE FDiv(SumSeq(SquaredDeviations(ys, MeanOf(ys))), F(Len(ys) - 1))
Variance(xs) == VarianceOf(DropNa(xs))

\* Series.std()
Std(xs) == FSqrt(Variance(xs))

\* Series.diff(): the first entry has no predecessor and is NaN
Diff(xs) ==
  [i \in 1..Len(xs) |-> IF i = 1 THEN NaN ELSE FSub(xs[i], xs[i - 1])]

\* Series.pct_change()
PctChange(xs) ==
  [i \in 1..Len(xs) |->
     IF i = 1 THEN NaN ELSE FSub(FDiv(xs[i], xs[i - 1]), F(1))]

\* Series.where(cond, other): keeps x where cond is True, else other; a
\* comparison with NaN is False
WhereGreater(xs, c, other) ==
  [i \in 1..Len(xs) |-> IF FGreater(xs[i], c) THEN xs[i] ELSE other]
WhereLess(xs, c, other) ==
  [i \in 1..Len(xs) |-> IF FLess(xs[i], c) THEN xs[i] ELSE other]

Window(xs, i, w) == SubSeq(xs, i - w + 1, i)

\* Series.rolling(window=w): min_periods defaults to w, so an entry is NaN
\* until w non-NaN observations lie in the trailing window
Unfilled(xs, i, w) == i < w \/ Len(DropNa(Window(xs, i, w))) < w

RollingMean(xs, w) ==
  [i \in 1..Len(xs) |->
     IF Unfilled(xs, i, w) THEN NaN ELSE Mean(Window(xs, i, w))]
RollingStd(xs, w) ==
  [i \in 1..Len(xs) |->
     IF Unfilled(xs, i, w) THEN NaN ELSE Std(Window(xs, i, w))]

\* Series.ewm(span, adjust=False).mean(): y[0] = x[0],
\* y[i] = a*x[i] + (1-a)*y[i-1] with a = 2/(span+1).  The exact value has
\* denominator (span+1)^i; it is kept as the application ewm(span, x[0..i]).
Ewm(xs, span) ==
  [i \in 1..Len(xs) |-> [k |-> "ewm", span |-> span, of |-> SubSeq(xs, 1, i)]]

\* elementwise a - b of two ewm columns, kept as the application sub(a, b)
Minus(as, bs) ==
  [i \in 1..Len(as) |-> [k |-> "sub", a |-> as[i], b |-> bs[i]]]

Neg(xs) == [i \in 1..Len(xs) |-> FNeg(xs[i])]
SeriesAdd(as, bs) == [i \in 1..Len(as) |-> FAdd(as[i], bs[i])]
SeriesSub(as, bs) == [i \in 1..Len(as) |-> FSub(as[i], bs[i])]
SeriesDiv(as, bs) == [i \in 1..Len(as) |-> FDiv(as[i], bs[i])]
SeriesMul(xs, c) == [i \in 1..Len(xs) |-> FMul(xs[i], c)]
\* scalar (op) Series
ScalarPlus(c, xs) == [i \in 1..Len(xs) |-> FAdd(c, xs[i])]
ScalarMinus(c, xs) == [i \in 1..Len(xs) |-> FSub(c, xs[i])]
ScalarOver(c, xs) == [i \in 1..Len(xs) |-> FDiv(c, xs[i])]

(***************************************************************************)
(* DataFrames: an index (dates) and named columns of equal length.         *)
(***************************************************************************)
Frame(index, close) == [index |-> index, cols |-> [c \in {"Close"} |-> close]]
Col(df, name) == df.cols[name]
\* df[name] = values
SetCol(df, name, values) == [df EXCEPT !.cols = (name :> values) @@ df.cols]
Columns(df) == DOMAIN df.cols
\* DataFrame.empty
Empty(df) == Len(df.index) = 0

(***************************************************************************)
(* calculate_technical_indicators, lines 94-115.                           *)
(***************************************************************************)
RSIWindow == 14

\* line 101: (delta.where(delta > 0, 0)).rolling(window=14).mean()
AvgGain(delta) ==
  RollingMean(WhereGreater(delta, F(0), F(0)), RSIWindow)

\* line 102: (-delta.where(delta < 0, 0)).rolling(window=14).mean()
AvgLoss(delta) ==
  RollingMean(Neg(WhereLess(delta, F(0), F(0))), RSIWindow)

\* line 104: 100 - (100 / (1 + rs))
RSIOf(rs) == ScalarMinus(F(100), ScalarOver(F(100), ScalarPlus(F(1), rs)))

\* lines 100-103 for delta
RSIFrom(delta) == RSIOf(SeriesDiv(AvgGain(delta), AvgLoss(delta)))

\* lines 100-104: the RSI of a close series
RSI(close) == RSIFrom(Diff(close))

\* lines 95-96
SMA50Branch(data, options) ==
  IF "SMA 50" \in options
  THEN SetCol(data, "SMA_50", RollingMean(Col(data, "Close"), 50))
  ELSE data

\* lines 97-98
SMA200Branch(data, options) ==
  IF "SMA 200" \in options
  THEN SetCol(data, "SMA_200", RollingMean(Col(data, "Close"), 200))
  ELSE data

\* lines 99-104
RSIBranch(data, options) ==
  IF "RSI" \in options
  THEN SetCol(data, "RSI", RSI(Col(data, "Close")))
  ELSE data

\* lines 106-108
WithMACD(data) ==
  SetCol(data, "MACD",
         Minus(Ewm(Col(data, "Close"), 12), Ewm(Col(data, "Close"), 26)))
\* line 109
WithSignal(data) == SetCol(data, "Signal", Ewm(Col(data, "MACD"), 9))

\* lines 105-109
MACDBranch(data, options) ==
  IF "MACD" \in options THEN WithSignal(WithMACD(data)) ELSE data

\* lines 111-114
WithSMA20(data) ==
  SetCol(data, "SMA_20", RollingMean(Col(data, "Close"), 20))
WithSTD20(data) ==
  SetCol(data, "STD_20", RollingStd(Col(data, "Close"), 20))
WithUpperBand(data) ==
  SetCol(data, "Upper Band",
         SeriesAdd(Col(data, "SMA_20"), SeriesMul(Col(data, "STD_20"), F(2))))
WithLowerBand(data) ==
  SetCol(data, "Lower Band",
         SeriesSub(Col(data, "SMA_20"), SeriesMul(Col(data, "STD_20"), F(2))))

\* lines 110-114
BollingerBranch(data, options) ==
  IF "Bollinger Bands" \in options
  THEN WithLowerBand(WithUpperBand(WithSTD20(WithSMA20(data))))
  ELSE data

\* the frame the body leaves in `data`: every requested branch, in order,
\* assigns its columns to the frame it was handed
Indicators(data, options) ==
  BollingerBranch(
    MACDBranch(
      RSIBranch(
        SMA200Branch(
          SMA50Branch(data, options), options), options), options), options)

\* the call: `data` is a reference; the assignments write through it and the
\* function returns the same reference (line 115)
calculate_technical_indicators(hp, data, options) ==
  [heap |-> [hp EXCEPT ![data] = Indicators(hp[data], options)],
   ret |-> data]

(***************************************************************************)
(* numpy: log, exp and the global random stream.                           *)
(***************************************************************************)
MaxExponent == 8

RECURSIVE Pow2(_)
Pow2(n) == IF n = 0 THEN 1 ELSE 2 * Pow2(n - 1)

\* np.log, in units of ln 2: log(2^e) = e; log(0) = -inf; log(x < 0) = NaN
NpLog(x) ==
  CASE IsNaN(x) -> NaN
    [] IsInf(x) -> IF x.s > 0 THEN x ELSE NaN
    [] FinSign(x) = 0 -> Inf(-1)
    [] FinSign(x) < 0 -> NaN
    [] OTHER ->
         F(CHOOSE e \in -MaxExponent..MaxExponent :
             x.q = IF e >= 0 THEN <<Pow2(e), 1>> ELSE <<1, Pow2(-e)>>)

\* m * 2^e, a plain rational when e = 0
Pow2Form(m, e) ==
  IF FIsZero(e) THEN Fin(m) ELSE [k |-> "exp", m |-> m, e |-> e]

\* np.exp of x units of ln 2: exp(0) = 1 exactly; any other finite x gives
\* the value 2^x, kept as m * 2^e with mantissa m = 1
NpExp(x) ==
  CASE IsNaN(x) -> NaN
    [] IsInf(x) -> IF x.s > 0 THEN x ELSE F(0)
    [] FIsZero(x) -> F(1)
    [] OTHER -> Pow2Form(RInt(1), x)

\* S * np.exp(..) for a price S that is rational or itself m * 2^e
PriceMul(price, factor) ==
  CASE IsNaN(price) \/ IsNaN(factor) -> NaN
    [] IsFin(factor) /\ IsFin(price) -> FMul(price, factor)
    [] IsFin(factor) ->
         [k |-> "exp", m |-> RMul(price.m, factor.q), e |-> price.e]
    [] IsFin(price) ->
         [k |-> "exp", m |-> RMul(price.q, factor.m), e |-> factor.e]
    [] OTHER -> Pow2Form(RMul(price.m, factor.m), FAdd(price.e, factor.e))

\* The global np.random stream: a deterministic function of its state.  The
\* generator is stood for by a counter of period RngMod whose state s yields
\* the standard normal variate (s % 3) - 1.
RngMod == 3
RngNext(s) == (s + 1) % RngMod
RngGauss(s) == (s % 3) - 1

RECURSIVE RngAfter(_, _)
RngAfter(s, n) == IF n = 0 THEN s ELSE RngAfter(RngNext(s), n - 1)

\* np.random.normal(loc, scale) drawn in state s: loc + scale * z.  A NaN loc
\* or scale gives NaN; the stream advances in every case.
RandomNormal(s, loc, scale) == FAdd(loc, FMul(scale, F(RngGauss(s))))

(***************************************************************************)
(* monte_carlo_simulation, lines 118-134.                                  *)
(***************************************************************************)
\* line 119: np.log(1 + data['Close'].pct_change())
LogOf(xs) == [i \in 1..Len(xs) |-> NpLog(xs[i])]
LogReturns(close) == LogOf(ScalarPlus(F(1), PctChange(close)))

\* lines 130-132: the price appended after `last` in stream state s
NextPrice(last, mu, sigma, s) ==
  PriceMul(last, NpExp(RandomNormal(s, mu, sigma)))

\* the step taken from the first price of the list instead of its last
ExtendFromFirst(prices, mu, sigma, s) ==
  Append(prices, NextPrice(prices[1], mu, sigma, s))

\* lines 131-132: price = prices[-1] * np.exp(shock); prices.append(price)
Extend(prices, mu, sigma, s) ==
  Append(prices, NextPrice(prices[Len(prices)], mu, sigma, s))

\* lines 128-132: the list `prices` of a path after t appends, the stream
\* being in state s when the path starts
RECURSIVE Prices(_, _, _, _, _)
Prices(S, mu, sigma, s, t) ==
  IF t = 0 THEN <<S>>
  ELSE Extend(Prices(S, mu, sigma, s, t - 1), mu, sigma, RngAfter(s, t - 1))

\* draws of one path: range(days-1)
Draws(days) == IF days >= 1 THEN days - 1 ELSE 0

\* lines 125-134 for the anchor S and the estimates mu, sigma: column i of
\* results is the list `prices` of path i, row r of it being prices[r]
Simulate(S, mu, sigma, simulations, days, s) ==
  [kind |-> "grid", days |-> days, simulations |-> simulations,
   cells |-> [r \in 1..days |->
                [i \in 1..simulations |->
                   Prices(S, mu, sigma, RngAfter(s, (i - 1) * Draws(days)),
                          Draws(days))[r]]],
   rng |-> RngAfter(s, simulations * Draws(days))]

\* lines 119-123 for the log returns of `close`
SimulateFrom(close, returns, simulations, days, s) ==
  Simulate(close[Len(close)], Mean(returns), Std(returns), simulations, days,
           s)

\* the call in stream state s: an IndexError when the series has no last
\* close (line 123), else the grid and the stream state it leaves behind
monte_carlo_simulation(data, simulations, days, s) ==
  IF Len(Col(data, "Close")) = 0
  THEN [kind |-> "raise", exc |-> "IndexError", rng |-> s]
  ELSE SimulateFrom(Col(data, "Close"), LogReturns(Col(data, "Close")),
                    simulations, days, s)

(***************************************************************************)
(* Risk metrics of tab4, lines 242-253.                                    *)
(***************************************************************************)
TradingDays == 252
ConfidenceLevel == 95

\* scipy.stats.norm.ppf(q, loc, scale): NaN unless scale > 0; else the
\* quantile, kept as the application ppf(q, loc, scale)
NormPpf(q, loc, scale) ==
  IF IsNaN(loc) \/ IsNaN(scale) \/ ~(FSign(scale) > 0) THEN NaN
  ELSE [k |-> "ppf", q |-> q, loc |-> loc, scale |-> scale]

\* lines 245-253 for the mean and the standard deviation of the returns
Metrics(mean, std) ==
  [mean |-> mean, std |-> std,
   var |-> NormPpf(Rat(100 - ConfidenceLevel, 100), mean, std),
   volatility |-> FMul(std, FSqrt(F(TradingDays))),
   sharpe |-> FMul(FDiv(mean, std), FSqrt(F(TradingDays)))]

MetricsOf(returns) == Metrics(Mean(returns), Std(returns))

\* line 242: stock_data['Close'].pct_change().dropna()
RiskMetrics(data) == MetricsOf(DropNa(PctChange(Col(data, "Close"))))

(***************************************************************************)
(* Comparison of tab5, lines 271-285.                                      *)
(***************************************************************************)
RECURSIVE SortedSeq(_)
SortedSeq(S) ==
  IF S = {} THEN <<>>
  ELSE LET m == CHOOSE x \in S : \A y \in S : x <= y
       IN  <<m>> \o SortedSeq(S \ {m})

Range(xs) == {xs[i] : i \in 1..Len(xs)}

\* data['Close']: a Series carrying the frame's index
CloseSeries(df) == [index |-> df.index, values |-> Col(df, "Close")]

\* the value a Series holds at a date, NaN when the date is not in its index
At(series, date) ==
  IF date \in Range(series.index)
  THEN series.values[CHOOSE i \in 1..Len(series.index) : series.index[i] = date]
  ELSE NaN

\* pd.DataFrame(compare_data): the columns are aligned on the sorted union of
\* the Series' indexes, NaN where a Series has no entry
DataFrameOf(compare_data) ==
  LET index == SortedSeq(UNION {Range(compare_data[ct].index) :
                                  ct \in DOMAIN compare_data})
  IN  [index |-> index,
       cols |-> [ct \in DOMAIN compare_data |->
                   [r \in 1..Len(index) |-> At(compare_data[ct], index[r])]]]

\* compare_df / compare_df.iloc[0]: every column over its first row
Normalize(compare_df) ==
  [compare_df EXCEPT !.cols =
     [ct \in DOMAIN compare_df.cols |->
        [r \in 1..Len(compare_df.index) |->
           FDiv(compare_df.cols[ct][r], compare_df.cols[ct][1])]]]

(***************************************************************************)
(* Bounds of the model and the inputs drawn within them.                   *)
(***************************************************************************)
\* bars of a fetched series in the script flow
MaxBars == 2
\* bars of a series handed to the RSI computation
MaxRSIBars == 15
\* bars of a series handed to the risk computations
MaxRiskBars == 3
\* the horizon handed to monte_carlo_simulation: 0..MaxDays
MaxDays == 3
\* monte_carlo_simulation calls of one run of the risk computations
MaxCalls == 2
\* the path count handed to monte_carlo_simulation: 0..MaxPaths
MaxPaths == 2
\* trading days per forecast year in simulation_days (252 at line 256), scaled;
\* the sliders of lines 51 and 59 stand at one year and one path
SimDaysPerYear == 2

\* close prices: powers of two, so that every log return is a multiple of ln 2
Closes == {1, 2}
\* the "Compare with" text (line 50) split at its commas (line 272): the
\* default, one other ticker, and the main ticker again
ComparisonLists == {<<"MSFT", "GOOG">>, <<"MSFT">>, <<"AAPL">>}
Options == {"SMA 50", "SMA 200", "RSI", "MACD", "Bollinger Bands"}

SeqsUpTo(S, n) == UNION {[1..m -> S] : m \in 0..n}

\* the frames yf.download can return with at most n bars: the last n trading
\* dates up to today (date n), none when the ticker has no data
Frames(n) ==
  {Frame([i \in 1..Len(close) |-> n - Len(close) + i],
         [i \in 1..Len(close) |-> F(close[i])]) : close \in SeqsUpTo(Closes, n)}

EmptyFrame == Frame(<<>>, <<>>)

\* load_stock_data, lines 73-80: the frame yf.download returned, or None
\* after an exception
None == 0
NoneResult == [none |-> TRUE, df |-> EmptyFrame]
Fetches(n) == {NoneResult} \cup {[none |-> FALSE, df |-> df] : df \in Frames(n)}

\* get_company_info, lines 84-91: None after an exception, else the info
\* dict, with or without the fields tab1 formats as numbers
CompanyInfos == {"None", "partial", "complete"}

(***************************************************************************)
(* State.                                                                  *)
(***************************************************************************)
VARIABLES
  pc,                  \* position of the script run
  rng,                 \* state of the global np.random stream
  heap,                \* the DataFrame objects, by reference 1..Len(heap)
  cache,               \* st.cache_data of load_stock_data: ticker -> result
  ticker,              \* sidebar, line 49
  comparison_tickers,  \* sidebar, line 50
  ta_options,          \* sidebar, line 55
  mc_simulations,      \* sidebar, line 59
  prediction_years,    \* sidebar, line 51
  stock_data,          \* reference to the loaded frame, or None
  company_info,        \* line 138
  risk,                \* tab4: the metrics shown, <<>> before
  mc_results,          \* tab4: result of monte_carlo_simulation
  compare_normalized,  \* tab5: the normalised frame, <<>> when not built
  ui,                  \* st.error / st.warning messages shown
  calls,               \* history: the monte_carlo_simulation calls made
  indicator_call,      \* history: the calculate_technical_indicators call
  analysed             \* history: the input of every analytics step run

vars == <<pc, rng, heap, cache, ticker, comparison_tickers, ta_options,
          mc_simulations, prediction_years, stock_data, company_info, risk,
          mc_results, compare_normalized, ui, calls, indicator_call, analysed>>

sidebar == <<ticker, comparison_tickers, ta_options, mc_simulations,
             prediction_years>>

NoGrid == [kind |-> "none"]
NoCall == [made |-> FALSE]

\* what an analytics step was handed: a reference (None: missing) and whether
\* the frame behind it has no rows
StepInput(step, hp, ref) ==
  [step |-> step, missing |-> ref = None,
   empty |-> ref # None /\ Empty(hp[ref])]

\* one monte_carlo_simulation call: its arguments and what it returned
CallRecord(data, simulations, days, s, out) ==
  [close |-> Col(data, "Close"), simulations |-> simulations, days |-> days,
   rng |-> s, out |-> [f \in DOMAIN out \ {"rng"} |-> out[f]]]

Cleared ==
  /\ risk = <<>>
  /\ mc_results = NoGrid
  /\ compare_normalized = <<>>
  /\ ui = {}
  /\ calls = <<>>
  /\ indicator_call = NoCall
  /\ analysed = {}

(***************************************************************************)
(* The script, lines 47-60 and 137-288: one run from top to bottom.        *)
(***************************************************************************)
Init ==
  /\ pc = "load"
  /\ rng \in 0..(RngMod - 1)
  /\ heap = <<>>
  /\ cache = [t \in {} |-> NoneResult]
  /\ ticker = "AAPL"
  /\ comparison_tickers \in ComparisonLists
  /\ ta_options \in SUBSET Options
  /\ mc_simulations = 1
  /\ prediction_years = 1
  /\ stock_data = None
  /\ company_info = "None"
  /\ Cleared

\* lines 137-138
LoadData ==
  /\ pc = "load"
  /\ \E result \in Fetches(MaxBars), info \in CompanyInfos :
       /\ cache' = (ticker :> result) @@ cache
       /\ heap' = IF result.none THEN heap ELSE Append(heap, result.df)
       /\ stock_data' = IF result.none THEN None ELSE Len(heap) + 1
       /\ company_info' = info
  /\ pc' = "guard"
  /\ UNCHANGED <<rng, sidebar, risk, mc_results, compare_normalized, ui,
                 calls, indicator_call, analysed>>

\* the guard without its emptiness test
GuardNotNone(hp, ref) == ref # None

\* line 140: stock_data is not None and not stock_data.empty
GuardOk(hp, ref) == ref # None /\ ~Empty(hp[ref])

\* lines 287-288
ShowError ==
  /\ pc = "guard"
  /\ ~GuardOk(heap, stock_data)
  /\ ui' = ui \cup {"error"}
  /\ pc' = "done"
  /\ UNCHANGED <<rng, heap, cache, sidebar, stock_data, company_info, risk,
                 mc_results, compare_normalized, calls, indicator_call,
                 analysed>>

\* line 142: the assignment of what the call returned, r
Returned(r) ==
  /\ heap' = r.heap
  /\ stock_data' = r.ret
  /\ indicator_call' = [made |-> TRUE, arg |-> stock_data,
                        before |-> heap[stock_data], ret |-> r.ret]

\* line 142: stock_data = calculate_technical_indicators(stock_data, ta_options)
CalcIndicators ==
  /\ pc = "guard"
  /\ GuardOk(heap, stock_data)
  /\ Returned(calculate_technical_indicators(heap, stock_data, ta_options))
  /\ analysed' = analysed \cup {StepInput("indicators", heap, stock_data)}
  /\ pc' = "tab1"
  /\ UNCHANGED <<rng, cache, sidebar, company_info, risk, mc_results,
                 compare_normalized, ui, calls>>

\* lines 147-187: company_info.get(..) raises on None (line 165); the number
\* formats raise on the 'N/A' of a missing field (lines 156-157, 165)
Tab1 ==
  /\ pc = "tab1"
  /\ pc' = IF company_info = "complete" THEN "tab2" ELSE "crashed"
  /\ UNCHANGED <<rng, heap, cache, sidebar, stock_data, company_info, risk,
                 mc_results, compare_normalized, ui, calls, indicator_call,
                 analysed>>

\* the columns tab2 plots, lines 192-220
Tab2Columns ==
  {"Close"}
  \cup (IF "SMA 50" \in ta_options THEN {"SMA_50"} ELSE {})
  \cup (IF "SMA 200" \in ta_options THEN {"SMA_200"} ELSE {})
  \cup (IF "Bollinger Bands" \in ta_options
        THEN {"Upper Band", "Lower Band"} ELSE {})
  \cup (IF "RSI" \in ta_options THEN {"RSI"} ELSE {})
  \cup (IF "MACD" \in ta_options THEN {"MACD", "Signal"} ELSE {})

\* lines 189-221: a KeyError when a plotted column is missing
Tab2 ==
  /\ pc = "tab2"
  /\ pc' = IF Tab2Columns \subseteq Columns(heap[stock_data])
           THEN "tab3" ELSE "crashed"
  /\ UNCHANGED <<rng, heap, cache, sidebar, stock_data, company_info, risk,
                 mc_results, compare_normalized, ui, calls, indicator_call,
                 analysed>>

\* lines 223-236: the forecast input is taken from stock_data; fitting and
\* predicting are the forecasting library's, which returns or raises
Tab3 ==
  /\ pc = "tab3"
  /\ analysed' = analysed \cup {StepInput("forecast", heap, stock_data)}
  /\ \E fitted \in BOOLEAN : pc' = IF fitted THEN "tab4" ELSE "crashed"
  /\ UNCHANGED <<rng, heap, cache, sidebar, stock_data, company_info, risk,
                 mc_results, compare_normalized, ui, calls, indicator_call>>

\* line 256
simulation_days == prediction_years * SimDaysPerYear

\* what a call leaves behind: the stream state, and the grid if it returned
Called(data, simulations, days, out) ==
  /\ rng' = out.rng
  /\ calls' = Append(calls, CallRecord(data, simulations, days, rng, out))
  /\ mc_results' = IF out.kind = "grid"
                   THEN [f \in DOMAIN out \ {"rng"} |-> out[f]]
                   ELSE mc_results

\* lines 257-267: mc_results is assigned unless the call raised
Simulated(data, simulations, days, out) ==
  /\ Called(data, simulations, days, out)
  /\ pc' = IF out.kind = "grid" THEN "tab5" ELSE "crashed"

\* lines 238-267
Tab4 ==
  /\ pc = "tab4"
  /\ risk' = <<RiskMetrics(heap[stock_data])>>
  /\ Simulated(heap[stock_data], mc_simulations, simulation_days,
               monte_carlo_simulation(heap[stock_data], mc_simulations,
                                      simulation_days, rng))
  /\ analysed' = analysed \cup {StepInput("risk", heap, stock_data),
                                StepInput("monte_carlo", heap, stock_data)}
  /\ UNCHANGED <<heap, cache, sidebar, stock_data, company_info,
                 compare_normalized, ui, indicator_call>>

\* line 275: data is not None and not data.empty
Comparable(result) == ~result.none /\ ~Empty(result.df)

\* lines 269-285: every ticker is loaded (from the cache when it was loaded
\* before), the usable ones are collected and, when more than one is left,
\* put in one frame and normalised
Tab5 ==
  /\ pc = "tab5"
  /\ LET wanted == Range(<<ticker>> \o comparison_tickers)
         fresh == wanted \ DOMAIN cache
     IN  \E fetched \in [fresh -> Fetches(MaxBars)] :
           LET loaded == fetched @@ cache
               kept == {ct \in wanted : Comparable(loaded[ct])}
               compare_data == [ct \in kept |-> CloseSeries(loaded[ct].df)]
           IN  /\ cache' = loaded
               /\ IF Cardinality(kept) > 1
                  THEN /\ compare_normalized' =
                            <<Normalize(DataFrameOf(compare_data))>>
                       /\ analysed' = analysed \cup
                            {[step |-> "normalize", missing |-> FALSE,
                              empty |-> Len(compare_data[ct].values) = 0] :
                               ct \in kept}
                       /\ ui' = ui
                  ELSE /\ compare_normalized' = compare_normalized
                       /\ analysed' = analysed
                       /\ ui' = ui \cup {"warning"}
  /\ pc' = "done"
  /\ UNCHANGED <<rng, heap, sidebar, stock_data, company_info, risk,
                 mc_results, calls, indicator_call>>

Next ==
  \/ LoadData
  \/ ShowError
  \/ CalcIndicators
  \/ Tab1
  \/ Tab2
  \/ Tab3
  \/ Tab4
  \/ Tab5

Spec == Init /\ [][Next]_vars

(***************************************************************************)
(* calculate_technical_indicators applied to the RSI option alone, on      *)
(* every series of up to MaxRSIBars bars.                                  *)
(***************************************************************************)
InitRSI ==
  /\ pc = "guard"
  /\ rng = 0
  /\ \E df \in Frames(MaxRSIBars) \ {EmptyFrame} :
       /\ heap = <<df>>
       /\ cache = [t \in {"AAPL"} |-> [none |-> FALSE, df |-> df]]
  /\ ticker = "AAPL"
  /\ comparison_tickers = <<"MSFT">>
  /\ ta_options = {"RSI"}
  /\ mc_simulations = 1
  /\ prediction_years = 1
  /\ stock_data = 1
  /\ company_info = "complete"
  /\ Cleared

NextRSI == CalcIndicators

SpecRSI == InitRSI /\ [][NextRSI]_vars

(***************************************************************************)
(* The risk computations of tab4 applied to every series of up to          *)
(* MaxRiskBars bars: the metrics, and monte_carlo_simulation called with   *)
(* every path count 0..MaxPaths and horizon 0..MaxDays.                    *)
(***************************************************************************)
InitRisk ==
  /\ pc = "tab4"
  /\ rng \in 0..(RngMod - 1)
  /\ \E df \in Frames(MaxRiskBars) :
       /\ heap = <<df>>
       /\ cache = [t \in {"AAPL"} |-> [none |-> FALSE, df |-> df]]
  /\ ticker = "AAPL"
  /\ comparison_tickers = <<"MSFT">>
  /\ ta_options = {}
  /\ mc_simulations = 1
  /\ prediction_years = 1
  /\ stock_data = 1
  /\ company_info = "complete"
  /\ Cleared

\* lines 242-253 on their own
ComputeMetrics ==
  /\ pc = "tab4"
  /\ risk = <<>>
  /\ risk' = <<RiskMetrics(heap[stock_data])>>
  /\ UNCHANGED <<pc, rng, heap, cache, sidebar, stock_data, company_info,
                 mc_results, compare_normalized, ui, calls, indicator_call,
                 analysed>>

\* monte_carlo_simulation(data, simulations, days) on its own
Simulation ==
  /\ pc = "tab4"
  /\ calls = <<>>
  /\ \E simulations \in 0..MaxPaths, days \in 0..MaxDays :
       Called(heap[stock_data], simulations, days,
              monte_carlo_simulation(heap[stock_data], simulations, days, rng))
  /\ UNCHANGED <<pc, heap, cache, sidebar, stock_data, company_info, risk,
                 compare_normalized, ui, indicator_call, analysed>>

NextRisk == ComputeMetrics \/ Simulation

SpecRisk == InitRisk /\ [][NextRisk]_vars

(***************************************************************************)
(* monte_carlo_simulation called again in the same process, up to MaxCalls *)
(* calls in all: the global random stream is where the last call left it.  *)
(***************************************************************************)
Resimulation ==
  /\ pc = "tab4"
  /\ calls # <<>>
  /\ Len(calls) < MaxCalls
  /\ \E simulations \in 0..MaxPaths, days \in 0..MaxDays :
       Called(heap[stock_data], simulations, days,
              monte_carlo_simulation(heap[stock_data], simulations, days, rng))
  /\ UNCHANGED <<pc, heap, cache, sidebar, stock_data, company_info, risk,
                 compare_normalized, ui, indicator_call, analysed>>

NextRepeat == Simulation \/ Resimulation

SpecRepeat == InitRisk /\ [][NextRepeat]_vars

(***************************************************************************)
(* The claims.                                                             *)
(***************************************************************************)
Min(a, b) == IF a < b THEN a ELSE b

\* the frame the indicators were computed on, after the call
Indicated == heap[indicator_call.ret]

\* C1: at every bar where the 14-bar averages exist and the average loss is
\* exactly 0, the RSI the indicator computation stores is exactly 100 (never
\* NaN, never infinite)
C1_RSIIs100WhenNoLoss ==
  (indicator_call.made /\ "RSI" \in ta_options) =>
    LET close == Col(Indicated, "Close")
        loss == AvgLoss(Diff(close))
    IN  \A i \in 1..Len(close) :
          (loss[i] = F(0)) => (Col(Indicated, "RSI")[i] = F(100))

\* C10: the RSI column has one entry per bar and its entries at indices 0
\* through 13 are all undefined (NaN)
C10_RSIUndefinedForFirstWindow ==
  (indicator_call.made /\ "RSI" \in ta_options) =>
    /\ Len(Col(Indicated, "RSI")) = Len(Col(Indicated, "Close"))
    /\ \A i \in 1..Min(RSIWindow, Len(Col(Indicated, "RSI"))) :
         IsNaN(Col(Indicated, "RSI")[i])

\* C2: two monte_carlo_simulation calls with the same series, path count
\* and horizon return the same outcome (the function takes no seed, so these
\* are all the inputs a caller can hold fixed)
C2_SameInputsSameGrid ==
  \A m, n \in 1..Len(calls) :
    (/\ calls[m].close = calls[n].close
     /\ calls[m].simulations = calls[n].simulations
     /\ calls[m].days = calls[n].days) => (calls[m].out = calls[n].out)

\* C4: a monte_carlo_simulation call with simulations = 0 or days = 0 ends
\* in an error and returns no grid
C4_ZeroParameterFails ==
  \A n \in 1..Len(calls) :
    (calls[n].simulations = 0 \/ calls[n].days = 0) =>
      (calls[n].out.kind = "raise")

\* C5: a monte_carlo_simulation call on a series of fewer than 2 bars ends
\* in an error; it returns no grid (of NaN prices or otherwise)
C5_ShortSeriesFails ==
  \A n \in 1..Len(calls) :
    (Len(calls[n].close) < 2) => (calls[n].out.kind = "raise")

\* the stream state in which the shock of row r (r >= 2) of column j is drawn
\* by the call c
DrawState(c, r, j) == RngAfter(c.rng, (j - 1) * (c.days - 1) + (r - 2))

\* C6, for one call c that returned a grid: the shape is days x simulations,
\* row 0 is the last close in every column, every later entry is the entry
\* above it in the same column times exp of that step's shock, and with zero
\* drift and zero volatility every entry is the last close
GridAsClaimed(c) ==
  LET S == c.close[Len(c.close)]
      mu == Mean(LogReturns(c.close))
      sigma == Std(LogReturns(c.close))
      g == c.out.cells
  IN  /\ Len(g) = c.days
      /\ \A r \in 1..c.days : Len(g[r]) = c.simulations
      /\ \A j \in 1..c.simulations : g[1][j] = S
      /\ \A r \in 2..c.days, j \in 1..c.simulations :
           g[r][j] = PriceMul(g[r - 1][j],
                              NpExp(RandomNormal(DrawState(c, r, j), mu, sigma)))
      /\ (FIsZero(mu) /\ FIsZero(sigma)) =>
           \A r \in 1..c.days, j \in 1..c.simulations : g[r][j] = S

\* C6: every grid monte_carlo_simulation returns for a horizon days >= 1 has
\* the shape, the anchor row and the per-column steps of GridAsClaimed
C6_GridShapeAnchorSteps ==
  \A n \in 1..Len(calls) :
    (calls[n].days >= 1 /\ calls[n].out.kind = "grid") =>
      GridAsClaimed(calls[n])

\* C6 happens: a call with at least 3 days and 2 paths returned a grid in
\* which a price moved away from the anchor and a later one moved again
C6_Witness ==
  \E n \in 1..Len(calls) :
    /\ calls[n].days >= 3
    /\ calls[n].simulations >= 2
    /\ calls[n].out.kind = "grid"
    /\ \E j \in 1..calls[n].simulations :
         LET g == calls[n].out.cells
         IN  /\ ~IsNaN(g[3][j])
             /\ g[2][j] # g[1][j]
             /\ g[3][j] # g[2][j]

\* C8: when the standard deviation of the returns is exactly 0 the Sharpe
\* ratio shown is the +/-infinity sentinel (the computation has no error
\* outcome), never NaN and never a finite number
C8_SharpeOnZeroDeviation ==
  (risk # <<>> /\ risk[1].std = F(0)) => IsInf(risk[1].sharpe)

\* C7: after calculate_technical_indicators returns, the frame it was handed
\* holds what it held before the call, and the result is another object
C7_InputNotMutated ==
  indicator_call.made =>
    /\ heap[indicator_call.arg] = indicator_call.before
    /\ indicator_call.ret # indicator_call.arg

\* C3: every column of the normalised comparison frame starts at exactly 1.0
C3_NormalizedStartsAtOne ==
  (compare_normalized # <<>>) =>
    \A ct \in DOMAIN compare_normalized[1].cols :
      compare_normalized[1].cols[ct][1] = F(1)

\* the main ticker's load gave nothing to analyse
MainMissing == stock_data = None \/ Empty(heap[stock_data])

AnalyticsSteps == {"indicators", "forecast", "risk", "monte_carlo", "normalize"}

\* C9: no analytics step is run on a missing or empty series: when the main
\* load returned None or an empty frame no step runs at all and the run ends
\* with the error message, and the tickers normalised are those whose load
\* returned a non-empty frame
C9_NoAnalyticsOnMissingOrEmpty ==
  /\ \A a \in analysed :
       a.step \in AnalyticsSteps /\ ~a.missing /\ ~a.empty
  /\ (pc # "load" /\ MainMissing) =>
       /\ analysed = {}
       /\ pc \in {"guard", "done"}
       /\ pc = "done" => ui = {"error"}
  /\ (compare_normalized # <<>>) =>
       \A ct \in DOMAIN compare_normalized[1].cols : Comparable(cache[ct])

\* C9 happens: a run went through every analytics step, and the comparison
\* left out a ticker whose load returned None or an empty frame
C9_Witness ==
  /\ pc = "done"
  /\ {a.step : a \in analysed} = AnalyticsSteps
  /\ \E ct \in DOMAIN cache :
       ~Comparable(cache[ct]) /\ ct \notin DOMAIN compare_normalized[1].cols

====
